---- MODULE Spec2Model ----
(***************************************************************************)
(* The DNS reconciler of captura_pulumi/porkbun.py as a state machine.     *)
(*                                                                         *)
(* handle_porkbun opens a log file and drives PorkbunRequests.__call__,    *)
(* which pings the provider and then runs PorkbunRequests.replace for      *)
(* every tracked subdomain.  Every `await client.send(...)` is one action  *)
(* of the model: the request, the provider's answer, and all of the code   *)
(* that runs up to the next send (the narrative lines written included).   *)
(*                                                                         *)
(* The provider (the Porkbun API) lies outside the repository.  It is      *)
(* modelled as a record store with a single caller: a request is either    *)
(* served (HTTP 200, status SUCCESS, effect applied) or refused (any other *)
(* response, no effect).                                                   *)
(*                                                                         *)
(* The image builder of captura_pipelines/builder.py follows further down: *)
(* BuilderGit.configure, Builder.image_tags, Builder.build with its        *)
(* backend process and read loop, and Builder.push.  Spec is the           *)
(* reconciler as handle_porkbun drives it, SpecExtract is __call__ for a   *)
(* subdomain of the caller's choice, SpecBuild is build and push, and      *)
(* SpecTags is image_tags over the descriptors, SpecLoad is util.load as   *)
(* the Builder's classmethods call it, and SpecCheckout is the validator   *)
(* BuilderGit.check_repository over repository URLs.                       *)
(***************************************************************************)
EXTENDS Integers, Sequences, FiniteSets, TLC

\* How many times handle_porkbun is invoked, one invocation after the other.
MaxRuns == 2

\* ------------------------------------------------------------------------
\* Strings that the code takes apart are sequences of characters.

Lower == {"a", "b", "c", "d", "e", "f", "g", "h", "i", "j", "k", "l", "m",
          "n", "o", "p", "q", "r", "s", "t", "u", "v", "w", "x", "y", "z"}
Upper == {"A", "B", "C", "D", "E", "F", "G", "H", "I", "J", "K", "L", "M",
          "N", "O", "P", "Q", "R", "S", "T", "U", "V", "W", "X", "Y", "Z"}
Digit == {"0", "1", "2", "3", "4", "5", "6", "7", "8", "9"}

\* The character class [*a-zA-Z0-9_-] of the pattern in replace.
NameChars == {"*", "_", "-"} \cup Lower \cup Upper \cup Digit

\* The domain handed to handle_porkbun, and the addresses it may be given.
Domain == <<"d", ".", "t">>
IPs == {"ip1", "ip2"}

\* subdomains = {domain, f"*.{domain}", f"www.{domain}"}
Subdomains == {Domain, <<"*", ".">> \o Domain, <<"w", "w", "w", ".">> \o Domain}

NoMatch == "NoMatch"

\* One atom of the interpolated (unescaped) domain against one character:
\* "." is the regex wildcard, every other character of a domain is literal.
AtomMatch(atom, c) == IF atom = "." THEN c # "\n" ELSE c = atom

SetMax(S) == CHOOSE x \in S : \A y \in S : y <= x

\* As SubdomainName, with group "subdomain_all" read instead of
\* "subdomain_name": the separating dot stays on the name.
SubdomainAll(domain, subdomain) ==
    LET n == Len(subdomain)
        d == Len(domain)
        ClassPrefix(k) == \A i \in 1..k : subdomain[i] \in NameChars
        DomainAt(p) == /\ p + d - 1 <= n
                       /\ \A j \in 1..d : AtomMatch(domain[j], subdomain[p + j - 1])
        Dotted(k) == k < n /\ subdomain[k + 1] = "." /\ DomainAt(k + 2)
        Ok(k) == ClassPrefix(k) /\ (Dotted(k) \/ DomainAt(k + 1))
        ks == {k \in 0..n : Ok(k)}
        m == SetMax(ks)
    IN  IF ks = {} THEN NoMatch
        ELSE SubSeq(subdomain, 1, IF Dotted(m) THEN m + 1 ELSE m)

\* p.match(subdomain) for p = ([*a-zA-Z0-9_-]*)\.?{domain}: anchored at the
\* start only; the greedy class takes the longest prefix for which the rest
\* of the pattern still matches.  The value is group "subdomain_name".
SubdomainName(domain, subdomain) ==
    LET n == Len(subdomain)
        d == Len(domain)
        ClassPrefix(k) == \A i \in 1..k : subdomain[i] \in NameChars
        DomainAt(p) == /\ p + d - 1 <= n
                       /\ \A j \in 1..d : AtomMatch(domain[j], subdomain[p + j - 1])
        Ok(k) == /\ ClassPrefix(k)
                 /\ \/ (k < n /\ subdomain[k + 1] = "." /\ DomainAt(k + 2))
                    \/ DomainAt(k + 1)
        ks == {k \in 0..n : Ok(k)}
    IN  IF ks = {} THEN NoMatch ELSE SubSeq(subdomain, 1, SetMax(ks))

\* ------------------------------------------------------------------------
\* Responses of the provider.

StatusCodes == {200, 500}
BodyStatus == {"SUCCESS", "ERROR"}

\* code: the HTTP status; status: the body's "status" field; success: whether
\* the body has a "success" key (check formats data['success'] into its
\* error), which only a body reporting an error is taken to carry.
Responses ==
    {r \in [code : StatusCodes, status : BodyStatus, success : BOOLEAN] :
        r.success => (r.code = 200 /\ r.status = "ERROR")}

Served(res) == res.code = 200 /\ res.status = "SUCCESS"

\* PorkbunRequests.check: the error it returns, or the KeyError it raises
\* while building the message from data['success'].
check(res) ==
    IF res.code # 200 THEN [err |-> "AssertionError", raised |-> FALSE]
    ELSE IF res.status # "SUCCESS"
         THEN IF res.success THEN [err |-> "AssertionError", raised |-> FALSE]
                             ELSE [err |-> "KeyError", raised |-> TRUE]
         ELSE [err |-> "none", raised |-> FALSE]

\* ------------------------------------------------------------------------
VARIABLES
    records,         \* the provider's A records of the domain: [id, name, content]
    nextId,          \* the id the provider gives the next record it creates
    pc,              \* where handle_porkbun / __call__ / replace stands
    ipaddr,          \* the target address of the current invocation
    todo,            \* subdomains the for loop of __call__ has not reached yet
    cur,             \* the subdomain replace is running for
    name,            \* replace's subdomain_name
    record,          \* replace's matched record (case (record,))
    err,             \* the exception that ended the invocation, or "none"
    calls,           \* the requests sent by this invocation, with their responses
    file,            \* the narrative lines written to the log file
    recordsAtStart,  \* records when the invocation began
    recordsAtEntry,  \* records when replace was entered for cur
    runs,            \* how many times handle_porkbun has been invoked
    last,            \* the invocation before this one: [ipaddr, pc]
    msg              \* what the message of the exception in err names

\* The image builder of captura_pipelines/builder.py.
VARIABLES
    git,             \* BuilderGit: [commit, tag, branch, pull]
    image,           \* BuilderImage: [tags, push]
    registry,        \* config.registry.registry
    repo,            \* the checkout at git.path and its remote: [path, head, origin]
    bpc,             \* where the builder's caller / build / push stands
    handle_exit,     \* the handle_exit argument of build: "None" or "cli"
    tags,            \* build's local `tags`: the references not yet applied
    tag,             \* build's local `tag`: the reference popped for --tag
    proc,            \* the backend process: [state, code, argv]
    pipe,            \* lines written by the backend and not yet read from the pipe
    buf,             \* lines read from the pipe and held by the buffered stream
    written,         \* how many lines the backend has written
    out,             \* what the callback has forwarded, one entry per yield
    built,           \* the references of the images the backend has built
    applied,         \* the references image.tag was called with
    topush,          \* push: the references the for loop has not reached
    pushes,          \* the calls of client.images.push, with their outcome
    berr,            \* the exception that ended build or push, or NoErr
    configures,      \* the results of the calls of BuilderGit.configure
    popens,          \* how many times the backend has been started
    derived          \* the value of image_tags when it was last read

bvars == <<git, image, registry, repo, bpc, handle_exit, tags, tag, proc, pipe,
           buf, written, out, built, applied, topush, pushes, berr, configures,
           popens, derived>>

dvars == <<records, nextId, pc, ipaddr, todo, cur, name, record, err, calls,
           file, recordsAtStart, recordsAtEntry, runs, last, msg>>

\* Loading a descriptor: util.load as Builder.fromBuilderFile calls it.
VARIABLES
    lpc,             \* where the load stands
    via,             \* the classmethod the load was asked through
    base,            \* the descriptor as parsed from its YAML
    overwrite,       \* the overwrite argument of load
    data,            \* what load returned
    gits             \* the BuilderGit values validated so far

lvars == <<lpc, via, base, overwrite, data, gits>>

vars == <<dvars, bvars, lvars>>

Names == {SubdomainName(Domain, s) : s \in Subdomains}

NoRecord == [id |-> 0, name |-> <<>>, content |-> "none"]
NoSub == <<"-">>
NoRun == [ipaddr |-> "none", pc |-> "idle"]

\* Records the provider may hold before the first invocation: any set of
\* A records over the tracked names and the known addresses.
InitialRecords ==
    LET pairs == Names \X IPs
        IdOf(p) == Cardinality({q \in pairs :
                      \/ Len(q[1]) < Len(p[1])
                      \/ (Len(q[1]) = Len(p[1]) /\ q[2] = "ip1" /\ p[2] = "ip2")}) + 1
    IN  {[id |-> IdOf(p), name |-> p[1], content |-> p[2]] : p \in pairs}

\* None, a value that is no string.
None == <<"None">>

\* Commit hashes, tags and references are sequences of tokens.
C1 == <<"c1">>
C2 == <<"c2">>
Commits == {C1, C2}

NoErr == [kind |-> "none", code |-> 0]
NoProc == [state |-> "none", code |-> 0, argv |-> <<>>]

\* A Builder as constructed from its descriptor, before any of its methods
\* has been called.
BuilderNew(g, img, reg, rp) ==
    /\ git = g
    /\ image = img
    /\ registry = reg
    /\ repo = rp
    /\ bpc = "new"
    /\ handle_exit = "None"
    /\ tags = {}
    /\ tag = None
    /\ proc = NoProc
    /\ pipe = <<>>
    /\ buf = <<>>
    /\ written = 0
    /\ out = <<>>
    /\ built = {}
    /\ applied = {}
    /\ topush = {}
    /\ pushes = <<>>
    /\ berr = NoErr
    /\ configures = <<>>
    /\ popens = 0
    /\ derived = {}

\* Values of a parsed YAML document: a scalar, or a mapping from keys to
\* values.
Leaf(v) == [kind |-> "leaf", val |-> v, items |-> <<>>]
Dict(f) == [kind |-> "dict", val |-> "", items |-> f]

\* No descriptor has been loaded.
NothingLoaded ==
    /\ lpc = "new"
    /\ via = "none"
    /\ base = Dict(<<>>)
    /\ overwrite = Dict(<<>>)
    /\ data = Dict(<<>>)
    /\ gits = {}

\* The reconciler before handle_porkbun is called, the provider holding recs.
ReconcilerIdle(recs) ==
    /\ records = recs
    /\ nextId = Cardinality(InitialRecords) + 1
    /\ pc = "idle"
    /\ ipaddr = "none"
    /\ todo = {}
    /\ cur = NoSub
    /\ name = <<>>
    /\ record = NoRecord
    /\ err = "none"
    /\ calls = <<>>
    /\ file = <<>>
    /\ recordsAtStart = records
    /\ recordsAtEntry = records
    /\ runs = 0
    /\ last = NoRun
    /\ msg = {}

Init ==
    /\ \E recs \in SUBSET InitialRecords : ReconcilerIdle(recs)
    /\ BuilderNew([commit |-> None, tag |-> None, branch |-> "master", pull |-> TRUE],
                  [tags |-> {}, push |-> FALSE],
                  <<"reg">>,
                  [path |-> "dir", head |-> C1, origin |-> C1])
    /\ NothingLoaded

\* ------------------------------------------------------------------------
\* Request builders: the part of each request the provider acts on.

req_ping == [url |-> "ping"]

\* retrieveByNameType/{domain}/A, with /{subdomain} when it is non-empty;
\* without it the provider answers for the root name.
req_read_domain(nm) == [url |-> "retrieveByNameType", type |-> "A", name |-> nm]

req_delete_domain_record(id) == [url |-> "delete", id |-> id]

\* As req_create_domain_record, with the name never put into the request:
\* the provider creates the record for the root name.
req_create_without_name(nm, content) ==
    [url |-> "create", type |-> "A", content |-> content, name |-> <<>>]

\* As req_create_domain_record, with the content argument not passed on.
req_create_without_content(nm, content) ==
    [url |-> "create", type |-> "A", content |-> "none", name |-> nm]

req_create_domain_record(nm, content) ==
    [url |-> "create", type |-> "A", content |-> content, name |-> nm]

\* One entry of the request log: the step of the code that sent it, the
\* subdomain it was sent for, the request, the response and the records the
\* response carried.
Call(op, sub, req, res, recs) ==
    [op |-> op, sub |-> sub, req |-> req, res |-> res, recs |-> recs]

\* ------------------------------------------------------------------------
\* The provider.

ProviderLookup(req) == {r \in records : r.name = req.name}

ProviderDelete(req) == {r \in records : r.id # req.id}

ProviderCreate(req) ==
    records \cup {[id |-> nextId, name |-> req.name, content |-> req.content]}

\* ------------------------------------------------------------------------
\* The reconciler.

\* As MatchRecords, with the comparison of the record's content left out:
\* a single record is always deleted and created again.
MatchRecordsAlwaysDelete(recs, ip) ==
    IF Cardinality(recs) = 1 THEN "delete"
    ELSE IF Cardinality(recs) = 0 THEN "none" ELSE "bad"

\* As MatchRecords, with the first case written as (record, *_): the first
\* of several records is taken for the only one.
MatchRecordsFirstOfMany(recs, ip) ==
    IF Cardinality(recs) >= 1
    THEN IF (CHOOSE r \in recs : TRUE).content = ip THEN "return" ELSE "delete"
    ELSE "none"

\* The match statement of replace over data["records"].
MatchRecords(recs, ip) ==
    IF Cardinality(recs) = 1
    THEN IF (CHOOSE r \in recs : TRUE).content = ip THEN "return" ELSE "delete"
    ELSE IF Cardinality(recs) = 0 THEN "none" ELSE "bad"

\* As VerifyCleared, with the assertion on the number of records left out.
VerifyClearedUnchecked(recs) == TRUE

\* assert isinstance(records, list) and len(records) == 0
VerifyCleared(recs) == Cardinality(recs) = 0

\* Where control goes when replace has finished for a subdomain: the for
\* loop of __call__ takes the next one, or the generator is exhausted and
\* handle_porkbun closes the file.
AfterReplace(left) == IF left = {} THEN "done" ELSE "loop"

MsgChain(text, nm) == <<text, nm, ipaddr>>

\* What the message of an error built by check carries: the two status
\* codes and the body; the value of data['success']; or, for the KeyError
\* raised while formatting, the name of the missing key.
CheckMessage(res) ==
    IF res.code # 200 THEN {"status_code", "data"}
    ELSE IF res.success THEN {"success"} ELSE {"key"}

\* ValueError(f"Failed to match subdomain name of `{subdomain}`.")
NoMatchMessage == {"subdomain"}

\* ValueError(f"Refusing to handle `{bad}`.")
RefusingMessage == {"records"}

\* The assert statements of replace have no message.
AssertMessage == {}

\* As LoopReady, with replace started for the next subdomain while the
\* one before it still has calls to send.
LoopReadyConcurrent == pc \in {"loop", "delete", "verify", "create"}

\* The for loop of __call__ takes the next subdomain only when the
\* generator of the one before it is exhausted.
LoopReady == pc = "loop"

\* As Raise, with the error kept and the for loop of __call__ going on
\* with the next subdomain.
RaiseAndContinue(e) ==
    /\ pc' = "loop"
    /\ err' = e

\* The exception propagates out of replace, __call__ and handle_porkbun.
Raise(e) ==
    /\ pc' = "failed"
    /\ err' = e

\* handle_porkbun up to the first send: the client and the log file are
\* opened, the header is written and __call__ starts.
handle_porkbun(ip) ==
    /\ \/ pc = "idle"
       \/ pc \in {"done", "failed"} /\ runs < MaxRuns
    /\ runs' = runs + 1
    /\ last' = [ipaddr |-> ipaddr, pc |-> pc]
    /\ ipaddr' = ip
    /\ pc' = "ping"
    /\ todo' = Subdomains
    /\ cur' = NoSub
    /\ name' = <<>>
    /\ record' = NoRecord
    /\ err' = "none"
    /\ calls' = <<>>
    /\ file' = << <<"Logs for handle_porkbun">> >>
    /\ recordsAtStart' = records
    /\ recordsAtEntry' = records
    /\ msg' = {}
    /\ UNCHANGED <<records, nextId>>
    /\ UNCHANGED <<bvars, lvars>>

\* __call__ called with a caller's own set of subdomains, here a single
\* candidate, up to the first send.
call_subdomains(ip, candidate) ==
    /\ pc = "idle"
    /\ runs' = runs + 1
    /\ last' = [ipaddr |-> ipaddr, pc |-> pc]
    /\ ipaddr' = ip
    /\ pc' = "ping"
    /\ todo' = {candidate}
    /\ cur' = NoSub
    /\ name' = <<>>
    /\ record' = NoRecord
    /\ err' = "none"
    /\ calls' = <<>>
    /\ file' = <<>>
    /\ recordsAtStart' = records
    /\ recordsAtEntry' = records
    /\ msg' = {}
    /\ UNCHANGED <<records, nextId>>
    /\ UNCHANGED <<bvars, lvars>>

\* As call_ping, with the result of check dropped.
call_ping_unchecked(res) ==
    /\ pc = "ping"
    /\ calls' = Append(calls, Call("ping", NoSub, req_ping, res, {}))
    /\ pc' = "loop"
    /\ UNCHANGED <<records, nextId, ipaddr, todo, cur, name, record, err, file,
                   recordsAtStart, recordsAtEntry, runs, last, msg>>
    /\ UNCHANGED <<bvars, lvars>>

\* __call__: res_ping = await client.send(self.req_ping()); check.
call_ping(res) ==
    /\ pc = "ping"
    /\ calls' = Append(calls, Call("ping", NoSub, req_ping, res, {}))
    /\ IF check(res).err # "none"
       THEN Raise(check(res).err) /\ msg' = CheckMessage(res)
       ELSE pc' = "loop" /\ err' = err /\ msg' = msg
    /\ UNCHANGED <<records, nextId, ipaddr, todo, cur, name, record, file,
                   recordsAtStart, recordsAtEntry, runs, last>>
    /\ UNCHANGED <<bvars, lvars>>

\* replace, from its entry to the first lookup and the match over its result.
replace_lookup(subdomain, res) ==
    /\ LoopReady
    /\ subdomain \in todo
    /\ todo' = todo \ {subdomain}
    /\ cur' = subdomain
    /\ recordsAtEntry' = records
    /\ LET nm == SubdomainName(Domain, subdomain)
           req == req_read_domain(nm)
           recs == IF Served(res) THEN ProviderLookup(req) ELSE {}
           branch == MatchRecords(recs, ipaddr)
       IN  IF nm = NoMatch
           THEN /\ Raise("ValueError")
                /\ msg' = NoMatchMessage
                /\ UNCHANGED <<name, record, calls, file>>
           ELSE /\ name' = nm
                /\ calls' = Append(calls, Call("lookup", subdomain, req, res, recs))
                /\ IF check(res).err # "none"
                   THEN /\ Raise(check(res).err)
                        /\ msg' = CheckMessage(res)
                        /\ UNCHANGED <<record, file>>
                   ELSE CASE branch = "return" ->
                               /\ file' = Append(file, MsgChain("Found record", nm))
                               /\ record' = CHOOSE r \in recs : TRUE
                               /\ pc' = AfterReplace(todo')
                               /\ err' = err
                               /\ msg' = msg
                          [] branch = "delete" ->
                               /\ file' = Append(file, MsgChain("Found record", nm))
                               /\ record' = CHOOSE r \in recs : TRUE
                               /\ pc' = "delete"
                               /\ err' = err
                               /\ msg' = msg
                          [] branch = "none" ->
                               /\ file' = file \o
                                    << MsgChain("No record found for", nm),
                                       MsgChain("Verifying that records cleared for", nm) >>
                               /\ record' = record
                               /\ pc' = "verify"
                               /\ err' = err
                               /\ msg' = msg
                          [] OTHER ->
                               /\ Raise("ValueError")
                               /\ msg' = RefusingMessage
                               /\ UNCHANGED <<record, file>>
    /\ UNCHANGED <<records, nextId, ipaddr, recordsAtStart, runs, last>>
    /\ UNCHANGED <<bvars, lvars>>

\* As replace_delete, with the verification lookup left out: the create
\* follows the delete at once.
replace_delete_unverified(res) ==
    /\ pc = "delete"
    /\ LET req == req_delete_domain_record(record.id)
       IN  /\ calls' = Append(calls, Call("delete", cur, req, res, {}))
           /\ records' = IF Served(res) THEN ProviderDelete(req) ELSE records
    /\ file' = Append(file, MsgChain("Creating records for", name))
    /\ pc' = "create"
    /\ UNCHANGED <<nextId, ipaddr, todo, cur, name, record, err,
                   recordsAtStart, recordsAtEntry, runs, last, msg>>
    /\ UNCHANGED <<bvars, lvars>>

\* replace: await client.send(req_delete); the response is dropped.
replace_delete(res) ==
    /\ pc = "delete"
    /\ LET req == req_delete_domain_record(record.id)
       IN  /\ calls' = Append(calls, Call("delete", cur, req, res, {}))
           /\ records' = IF Served(res) THEN ProviderDelete(req) ELSE records
    /\ file' = Append(file, MsgChain("Verifying that records cleared for", name))
    /\ pc' = "verify"
    /\ UNCHANGED <<nextId, ipaddr, todo, cur, name, record, err,
                   recordsAtStart, recordsAtEntry, runs, last, msg>>
    /\ UNCHANGED <<bvars, lvars>>

\* As replace_verify, with the line that announces the create kept back
\* instead of being yielded before the create is sent.
replace_verify_quiet(res) ==
    /\ pc = "verify"
    /\ LET req == req_read_domain(name)
           recs == IF Served(res) THEN ProviderLookup(req) ELSE {}
       IN  /\ calls' = Append(calls, Call("verify", cur, req, res, recs))
           /\ IF check(res).err # "none"
              THEN Raise(check(res).err) /\ msg' = CheckMessage(res)
              ELSE IF ~VerifyCleared(recs)
                   THEN Raise("AssertionError") /\ msg' = AssertMessage
                   ELSE pc' = "create" /\ err' = err /\ msg' = msg
    /\ UNCHANGED <<records, nextId, ipaddr, todo, cur, name, record, file,
                   recordsAtStart, recordsAtEntry, runs, last>>
    /\ UNCHANGED <<bvars, lvars>>

\* replace: the second send of req_read, check, and the two asserts.
replace_verify(res) ==
    /\ pc = "verify"
    /\ LET req == req_read_domain(name)
           recs == IF Served(res) THEN ProviderLookup(req) ELSE {}
       IN  /\ calls' = Append(calls, Call("verify", cur, req, res, recs))
           /\ IF check(res).err # "none"
              THEN Raise(check(res).err) /\ msg' = CheckMessage(res) /\ file' = file
              ELSE IF ~VerifyCleared(recs)
                   THEN Raise("AssertionError") /\ msg' = AssertMessage /\ file' = file
                   ELSE /\ file' = Append(file, MsgChain("Creating records for", name))
                        /\ pc' = "create"
                        /\ err' = err
                        /\ msg' = msg
    /\ UNCHANGED <<records, nextId, ipaddr, todo, cur, name, record,
                   recordsAtStart, recordsAtEntry, runs, last>>
    /\ UNCHANGED <<bvars, lvars>>

\* replace: send req_create (type A, content ipaddr, name subdomain_name), check.
replace_create(res) ==
    /\ pc = "create"
    /\ LET req == req_create_domain_record(name, ipaddr)
       IN  /\ calls' = Append(calls, Call("create", cur, req, res, {}))
           /\ IF Served(res)
              THEN records' = ProviderCreate(req) /\ nextId' = nextId + 1
              ELSE UNCHANGED <<records, nextId>>
    /\ IF check(res).err # "none"
       THEN Raise(check(res).err) /\ msg' = CheckMessage(res) /\ file' = file
       ELSE /\ file' = Append(file, <<"Record created!">>)
            /\ pc' = AfterReplace(todo)
            /\ err' = err
            /\ msg' = msg
    /\ UNCHANGED <<ipaddr, todo, cur, name, record,
                   recordsAtStart, recordsAtEntry, runs, last>>
    /\ UNCHANGED <<bvars, lvars>>

Next ==
    \/ \E ip \in IPs : handle_porkbun(ip)
    \/ \E res \in Responses : call_ping(res)
    \/ \E s \in Subdomains, res \in Responses : replace_lookup(s, res)
    \/ \E res \in Responses : replace_delete(res)
    \/ \E res \in Responses : replace_verify(res)
    \/ \E res \in Responses : replace_create(res)

Spec == Init /\ [][Next]_vars

\* ------------------------------------------------------------------------
\* __call__ for one subdomain of the caller's choice: every string over
\* Alphabet of at most MaxCandidate characters.

MaxCandidate == 5

Alphabet == {"d", ".", "t", "x"}

Candidates == UNION {[1..n -> Alphabet] : n \in 0..MaxCandidate}

ExtractInit ==
    /\ \E recs \in SUBSET {r \in InitialRecords : r.name = <<>> /\ r.content = "ip1"} :
          ReconcilerIdle(recs)
    /\ BuilderNew([commit |-> None, tag |-> None, branch |-> "master", pull |-> TRUE],
                  [tags |-> {}, push |-> FALSE],
                  <<"reg">>,
                  [path |-> "dir", head |-> C1, origin |-> C1])
    /\ NothingLoaded

ExtractNext ==
    \/ pc = "idle" /\ \E ip \in IPs, candidate \in Candidates :
                         call_subdomains(ip, candidate)
    \/ \E res \in Responses : call_ping(res)
    \/ \E s \in todo, res \in Responses : replace_lookup(s, res)
    \/ \E res \in Responses : replace_delete(res)
    \/ \E res \in Responses : replace_verify(res)
    \/ \E res \in Responses : replace_create(res)

SpecExtract == ExtractInit /\ [][ExtractNext]_vars

\* ------------------------------------------------------------------------
\* The image builder: BuilderGit.configure, Builder.image_tags, Builder.build
\* with its backend process, Builder.push, and the CLI commands that call
\* them.  The backend (docker build), the docker daemon and the git
\* repository lie outside the repository and are modelled by what the code
\* observes of them.

\* How many lines the backend writes to its output before it exits.
MaxLines == 2

ExitCodes == {0, 1, 2}

\* image.repository and config.registry.username.
Repository == <<"repo">>
Username == <<"user">>

\* Python's truth value of an optional string.
Truthy(s) == s # None /\ s # <<>>

\* str.split(sep): the parts between the occurrences of sep.
Split(s, sep) ==
    LET P == {i \in 1..Len(s) : s[i] = sep}
        n == Cardinality(P)
        pos(k) == CHOOSE i \in P : Cardinality({j \in P : j < i}) = k - 1
        start(k) == IF k = 1 THEN 1 ELSE pos(k - 1) + 1
        stop(k) == IF k = n + 1 THEN Len(s) ELSE pos(k) - 1
    IN  [k \in 1..(n + 1) |-> SubSeq(s, start(k), stop(k))]

image_full ==
    LET ns_or_registry == IF registry = None THEN Username ELSE registry
    IN  ns_or_registry \o <<"/">> \o Repository

\* As image_tags, with the version tag added without the branch's suffix.
image_tags_unsuffixed ==
    LET tagset == (IF git.commit # None THEN {git.commit} ELSE {})
                     \cup (IF Truthy(git.tag) THEN {git.tag} ELSE {})
                     \cup image.tags
    IN  {image_full \o <<":">> \o t : t \in tagset}

\* As image_tags, with the commit never added.
image_tags_without_commit ==
    LET version == IF git.branch \in {"master", "main"} THEN git.tag \o <<"-alpha">>
                   ELSE IF git.branch = "dev" THEN git.tag \o <<"-beta">>
                   ELSE git.tag
        tagset == (IF Truthy(git.tag) THEN {version} ELSE {}) \cup image.tags
    IN  {image_full \o <<":">> \o t : t \in tagset}

\* Builder.image_tags.
image_tags ==
    LET version == IF git.branch \in {"master", "main"} THEN git.tag \o <<"-alpha">>
                   ELSE IF git.branch = "dev" THEN git.tag \o <<"-beta">>
                   ELSE git.tag
        tagset == (IF git.commit # None THEN {git.commit} ELSE {})
                     \cup (IF Truthy(git.tag) THEN {version} ELSE {})
                     \cup image.tags
    IN  {image_full \o <<":">> \o t : t \in tagset}

\* As Configure, with a commit that is set not forced onto the branch.
ConfigureNoSetCommit(g, rp, pulled) ==
    IF rp.path = "file"
    THEN [err |-> "ValueError", at |-> "path", pull |-> FALSE, git |-> g, repo |-> rp]
    ELSE LET cloned == IF rp.path = "absent"
                       THEN [rp EXCEPT !.path = "dir", !.head = rp.origin]
                       ELSE rp
         IN  IF cloned.head = None
             THEN [err |-> "ValueError", at |-> "branch", pull |-> FALSE, git |-> g,
                   repo |-> cloned]
             ELSE IF g.pull /\ ~pulled
                  THEN [err |-> "GitCommandError", at |-> "pull", pull |-> TRUE, git |-> g,
                        repo |-> cloned]
                  ELSE LET r == IF g.pull THEN [cloned EXCEPT !.head = cloned.origin]
                                ELSE cloned
                       IN  IF g.commit # None
                           THEN [err |-> "none", at |-> "none", pull |-> g.pull, git |-> g,
                                 repo |-> r]
                           ELSE [err |-> "none", at |-> "none", pull |-> g.pull,
                                 git |-> [g EXCEPT !.commit = r.head], repo |-> r]

\* As Configure, with the pull made before the branch is looked up.
ConfigurePullFirst(g, rp, pulled) ==
    IF rp.path = "file"
    THEN [err |-> "ValueError", at |-> "path", pull |-> FALSE, git |-> g, repo |-> rp]
    ELSE LET cloned == IF rp.path = "absent"
                       THEN [rp EXCEPT !.path = "dir", !.head = rp.origin]
                       ELSE rp
         IN  IF g.pull /\ ~pulled
             THEN [err |-> "GitCommandError", at |-> "pull", pull |-> TRUE, git |-> g,
                   repo |-> cloned]
             ELSE IF cloned.head = None
                  THEN [err |-> "ValueError", at |-> "branch", pull |-> g.pull, git |-> g,
                        repo |-> cloned]
                  ELSE LET r == IF g.pull THEN [cloned EXCEPT !.head = cloned.origin]
                                ELSE cloned
                       IN  IF g.commit # None
                           THEN [err |-> "none", at |-> "none", pull |-> g.pull, git |-> g,
                                 repo |-> [r EXCEPT !.head = g.commit]]
                           ELSE [err |-> "none", at |-> "none", pull |-> g.pull,
                                 git |-> [g EXCEPT !.commit = r.head], repo |-> r]

\* As Configure, with the commit read from the branch on every call.
ConfigureAlwaysLatest(g, rp, pulled) ==
    IF rp.path = "file"
    THEN [err |-> "ValueError", at |-> "path", pull |-> FALSE, git |-> g, repo |-> rp]
    ELSE LET cloned == IF rp.path = "absent"
                       THEN [rp EXCEPT !.path = "dir", !.head = rp.origin]
                       ELSE rp
         IN  IF cloned.head = None
             THEN [err |-> "ValueError", at |-> "branch", pull |-> FALSE, git |-> g,
                   repo |-> cloned]
             ELSE IF g.pull /\ ~pulled
                  THEN [err |-> "GitCommandError", at |-> "pull", pull |-> TRUE, git |-> g,
                        repo |-> cloned]
                  ELSE LET r == IF g.pull THEN [cloned EXCEPT !.head = cloned.origin]
                                ELSE cloned
                       IN  [err |-> "none", at |-> "none", pull |-> g.pull,
                            git |-> [g EXCEPT !.commit = r.head], repo |-> r]

\* What is kept of one call of configure: who called, the error and where
\* it was raised, whether origin was pulled from, the path and the branch as
\* the call found them, the commit field before and after, and the branch afterwards.
ConfigureEntry(by, g, c) ==
    [by |-> by, err |-> c.err, at |-> c.at, pull |-> c.pull,
     found |-> [path |-> repo.path, head |-> repo.head],
     given |-> g.commit, commit |-> c.git.commit, head |-> c.repo.head]

\* As Configure, with the commit field left as it was when it is None.
ConfigureCommitLeftNone(g, rp, pulled) ==
    IF rp.path = "file"
    THEN [err |-> "ValueError", at |-> "path", pull |-> FALSE, git |-> g, repo |-> rp]
    ELSE LET cloned == IF rp.path = "absent"
                       THEN [rp EXCEPT !.path = "dir", !.head = rp.origin]
                       ELSE rp
         IN  IF cloned.head = None
             THEN [err |-> "ValueError", at |-> "branch", pull |-> FALSE, git |-> g,
                   repo |-> cloned]
             ELSE IF g.pull /\ ~pulled
                  THEN [err |-> "GitCommandError", at |-> "pull", pull |-> TRUE, git |-> g,
                        repo |-> cloned]
                  ELSE LET r == IF g.pull THEN [cloned EXCEPT !.head = cloned.origin]
                                ELSE cloned
                       IN  IF g.commit # None
                           THEN [err |-> "none", at |-> "none", pull |-> g.pull, git |-> g,
                                 repo |-> [r EXCEPT !.head = g.commit]]
                           ELSE [err |-> "none", at |-> "none", pull |-> g.pull, git |-> g,
                                 repo |-> r]

\* BuilderGit.configure on descriptor g and checkout rp; pulled says whether
\* the pull from origin goes through.  The value is the error raised (or
\* "none"), the descriptor and the checkout afterwards.
Configure(g, rp, pulled) ==
    IF rp.path = "file"
    THEN [err |-> "ValueError", at |-> "path", pull |-> FALSE, git |-> g, repo |-> rp]
    ELSE LET cloned == IF rp.path = "absent"
                       THEN [rp EXCEPT !.path = "dir", !.head = rp.origin]
                       ELSE rp
         IN  IF cloned.head = None
             THEN [err |-> "ValueError", at |-> "branch", pull |-> FALSE, git |-> g,
                   repo |-> cloned]
             ELSE IF g.pull /\ ~pulled
                  THEN [err |-> "GitCommandError", at |-> "pull", pull |-> TRUE, git |-> g,
                        repo |-> cloned]
                  ELSE LET r == IF g.pull THEN [cloned EXCEPT !.head = cloned.origin]
                                ELSE cloned
                       IN  IF g.commit # None
                           THEN [err |-> "none", at |-> "none", pull |-> g.pull, git |-> g,
                                 repo |-> [r EXCEPT !.head = g.commit]]
                           ELSE [err |-> "none", at |-> "none", pull |-> g.pull,
                                 git |-> [g EXCEPT !.commit = r.head], repo |-> r]

\* As BuildError, with the exit code replaced by 1.
BuildErrorOne(he, c) ==
    IF he = "None" THEN [kind |-> "ValueError", code |-> 1]
    ELSE [kind |-> "Exit", code |-> 1]

\* The error build raises for exit code c: ValueError naming c, or what
\* handle_exit returns for c (typer.Exit(c) in BuilderCommandCI.build).
BuildError(he, c) ==
    IF he = "None" THEN [kind |-> "ValueError", code |-> c]
    ELSE [kind |-> "Exit", code |-> c]

\* As PopRest, with nothing left to apply after the pop.
PopRestNone(S, t) == {}

\* tags = self.image_tags.copy(); tag = tags.pop(): what stays in tags.
PopRest(S, t) == S \ {t}

\* As SelectReady, with the selector reporting the stream only when the
\* backend has exited.
SelectReadyAtExit == proc.state = "exited"

\* As SelectReady, with the selector reporting data only, never the end of
\* the stream.
SelectReadyOnData == pipe # <<>>

\* selector.select() returns when the backend's output can be read: there
\* is data in the pipe, or the backend has closed it.
SelectReady == pipe # <<>> \/ proc.state = "exited"

\* What client.images.push may do: push the reference; raise; or return
\* output in which the daemon reports that the push failed.
PushOutcomes == {"pushed", "raises", "reported"}

\* The references of extra tags a descriptor may give.
Latest == <<"latest">>

\* The remote's branch gets a new commit.
origin_advances ==
    /\ bpc \in {"new", "build"}
    /\ repo.origin = C1
    /\ repo' = [repo EXCEPT !.origin = C2]
    /\ UNCHANGED <<git, image, registry, bpc, handle_exit, tags, tag, proc, pipe,
                   buf, written, out, built, applied, topush, pushes, berr,
                   configures, popens, derived>>
    /\ UNCHANGED <<dvars, lvars>>

\* BuilderCommandCI.build up to the call of builder.build: handle_exit is
\* defined and builder.git.configure() is called.
ci_build(pulled) ==
    /\ bpc = "new"
    /\ LET c == Configure(git, repo, pulled)
       IN  /\ git' = c.git
           /\ repo' = c.repo
           /\ configures' = Append(configures, ConfigureEntry("ci", git, c))
           /\ IF c.err # "none"
              THEN bpc' = "raised" /\ berr' = [kind |-> c.err, code |-> 0]
              ELSE bpc' = "build" /\ berr' = berr
    /\ handle_exit' = "cli"
    /\ UNCHANGED <<image, registry, tags, tag, proc, pipe, buf, written, out,
                   built, applied, topush, pushes, popens, derived>>
    /\ UNCHANGED <<dvars, lvars>>

\* As build_configure, with an error of configure caught and build going on.
build_configure_unchecked(pulled) ==
    /\ bpc \in {"new", "build"}
    /\ LET c == Configure(git, repo, pulled)
       IN  /\ git' = c.git
           /\ repo' = c.repo
           /\ configures' = Append(configures, ConfigureEntry("build", git, c))
    /\ bpc' = "popen"
    /\ UNCHANGED <<image, registry, handle_exit, tags, tag, proc, pipe, buf, written,
                   out, built, applied, topush, pushes, berr, popens, derived>>
    /\ UNCHANGED <<dvars, lvars>>

\* Builder.build, first statement: self.git.configure().  build is entered
\* from BuilderCommandCI.build, or called with handle_exit left at None.
build_configure(pulled) ==
    /\ bpc \in {"new", "build"}
    /\ LET c == Configure(git, repo, pulled)
       IN  /\ git' = c.git
           /\ repo' = c.repo
           /\ configures' = Append(configures, ConfigureEntry("build", git, c))
           /\ IF c.err # "none"
              THEN bpc' = "raised" /\ berr' = [kind |-> c.err, code |-> 0]
              ELSE bpc' = "popen" /\ berr' = berr
    /\ UNCHANGED <<image, registry, handle_exit, tags, tag, proc, pipe, buf, written,
                   out, built, applied, topush, pushes, popens, derived>>
    /\ UNCHANGED <<dvars, lvars>>

\* build: the tag set is copied, one reference is popped for --tag (KeyError
\* on an empty set) and the backend is started with its output piped.
build_popen ==
    /\ bpc = "popen"
    /\ derived' = image_tags
    /\ \/ /\ image_tags = {}
          /\ bpc' = "raised"
          /\ berr' = [kind |-> "KeyError", code |-> 0]
          /\ UNCHANGED <<tags, tag, proc, popens>>
       \/ \E t \in image_tags :
             /\ tag' = t
             /\ tags' = PopRest(image_tags, t)
             /\ proc' = [state |-> "running", code |-> 0, argv |-> <<"--tag", t>>]
             /\ popens' = popens + 1
             /\ bpc' = "poll"
             /\ berr' = berr
    /\ UNCHANGED <<git, image, registry, repo, handle_exit, pipe, buf, written, out,
                   built, applied, topush, pushes, configures>>
    /\ UNCHANGED <<dvars, lvars>>

\* The backend writes one line to its output.
backend_write ==
    /\ proc.state = "running"
    /\ written < MaxLines
    /\ written' = written + 1
    /\ pipe' = Append(pipe, written + 1)
    /\ UNCHANGED <<git, image, registry, repo, bpc, handle_exit, tags, tag, proc,
                   buf, out, built, applied, topush, pushes, berr, configures,
                   popens, derived>>
    /\ UNCHANGED <<dvars, lvars>>

\* The backend exits with code c, which closes its end of the pipe; with
\* code 0 it has built the image and given it the reference of --tag.
backend_exit(c) ==
    /\ proc.state = "running"
    /\ proc' = [proc EXCEPT !.state = "exited", !.code = c]
    /\ built' = IF c = 0 THEN built \cup {proc.argv[2]} ELSE built
    /\ UNCHANGED <<git, image, registry, repo, bpc, handle_exit, tags, tag, pipe,
                   buf, written, out, applied, topush, pushes, berr, configures,
                   popens, derived>>
    /\ UNCHANGED <<dvars, lvars>>

\* while process.poll() is None
build_poll ==
    /\ bpc = "poll"
    /\ bpc' = IF proc.state = "running" THEN "select" ELSE "wait"
    /\ UNCHANGED <<git, image, registry, repo, handle_exit, tags, tag, proc, pipe,
                   buf, written, out, built, applied, topush, pushes, berr,
                   configures, popens, derived>>
    /\ UNCHANGED <<dvars, lvars>>

\* events = selector.select()
build_select ==
    /\ bpc = "select"
    /\ SelectReady
    /\ bpc' = "callback"
    /\ UNCHANGED <<git, image, registry, repo, handle_exit, tags, tag, proc, pipe,
                   buf, written, out, built, applied, topush, pushes, berr,
                   configures, popens, derived>>
    /\ UNCHANGED <<dvars, lvars>>

\* yield fn(key.fileobj, mask): the callback reads one line from the
\* buffered stream and forwards it.  readline serves the line from the
\* stream's buffer; on an empty buffer it reads what the pipe holds into
\* the buffer first; at the end of the stream it gives the empty chunk,
\* written here 0.
build_callback ==
    /\ bpc = "callback"
    /\ buf # <<>> \/ pipe # <<>> \/ proc.state = "exited"
    /\ LET held == IF buf # <<>> THEN buf ELSE pipe
           chunk == IF held # <<>> THEN Head(held) ELSE 0
       IN  /\ out' = Append(out, [chunk |-> chunk, live |-> proc.state = "running"])
           /\ buf' = IF held # <<>> THEN Tail(held) ELSE <<>>
           /\ pipe' = IF buf # <<>> THEN pipe ELSE <<>>
    /\ bpc' = "poll"
    /\ UNCHANGED <<git, image, registry, repo, handle_exit, tags, tag, proc,
                   written, built, applied, topush, pushes, berr, configures,
                   popens, derived>>
    /\ UNCHANGED <<dvars, lvars>>

\* exit_code = process.wait(), the stream is closed; a non-zero code is
\* raised, otherwise the image is fetched by the reference of --tag.
build_wait ==
    /\ bpc = "wait"
    /\ pipe' = <<>>
    /\ buf' = <<>>
    /\ IF proc.code # 0
       THEN bpc' = "raised" /\ berr' = BuildError(handle_exit, proc.code)
       ELSE bpc' = (IF tags = {} THEN "built" ELSE "tagging") /\ berr' = berr
    /\ UNCHANGED <<git, image, registry, repo, handle_exit, tags, tag, proc,
                   written, out, built, applied, topush, pushes, configures,
                   popens, derived>>
    /\ UNCHANGED <<dvars, lvars>>

\* for tag in tags: image.tag(tag), one reference per step.
build_tag(t) ==
    /\ bpc = "tagging"
    /\ t \in tags
    /\ applied' = applied \cup {[image |-> tag, ref |-> t]}
    /\ tags' = tags \ {t}
    /\ bpc' = IF tags' = {} THEN "built" ELSE "tagging"
    /\ UNCHANGED <<git, image, registry, repo, handle_exit, tag, proc, pipe, buf,
                   written, out, built, topush, pushes, berr, configures, popens,
                   derived>>
    /\ UNCHANGED <<dvars, lvars>>

\* BuilderCommandCI.push up to the call of builder.push.
ci_push(pulled) ==
    /\ bpc = "new"
    /\ LET c == Configure(git, repo, pulled)
       IN  /\ git' = c.git
           /\ repo' = c.repo
           /\ configures' = Append(configures, ConfigureEntry("ci", git, c))
           /\ IF c.err # "none"
              THEN /\ bpc' = "raised"
                   /\ berr' = [kind |-> c.err, code |-> 0]
                   /\ image' = image
              ELSE /\ bpc' = "push"
                   /\ berr' = berr
                   /\ image' = [image EXCEPT !.push = TRUE]
    /\ UNCHANGED <<registry, handle_exit, tags, tag, proc, pipe, buf, written, out,
                   built, applied, topush, pushes, popens, derived>>
    /\ UNCHANGED <<dvars, lvars>>

\* Builder.push up to the first reference of its for loop.
push_begin ==
    /\ bpc \in {"built", "push"}
    /\ IF ~image.push
       THEN bpc' = "pushed" /\ UNCHANGED <<topush, derived>>
       ELSE /\ derived' = image_tags
            /\ topush' = image_tags
            /\ bpc' = IF image_tags = {} THEN "pushed" ELSE "pushing"
    /\ UNCHANGED <<git, image, registry, repo, handle_exit, tags, tag, proc, pipe,
                   buf, written, out, built, applied, pushes, berr, configures,
                   popens>>
    /\ UNCHANGED <<dvars, lvars>>

\* push, one reference of the for loop: image_full, tag = tag.split(":")
\* and client.images.push(image_full, tag=tag), whose value is dropped.
push_next(ref, outcome) ==
    /\ bpc = "pushing"
    /\ ref \in topush
    /\ topush' = topush \ {ref}
    /\ LET parts == Split(ref, ":")
       IN  IF Len(parts) # 2
           THEN /\ bpc' = "raised"
                /\ berr' = [kind |-> "ValueError", code |-> 0]
                /\ pushes' = pushes
           ELSE /\ pushes' = Append(pushes, [repository |-> parts[1], tag |-> parts[2],
                                               outcome |-> outcome])
                /\ IF outcome = "raises"
                   THEN bpc' = "raised" /\ berr' = [kind |-> "APIError", code |-> 0]
                   ELSE /\ bpc' = IF topush' = {} THEN "pushed" ELSE "pushing"
                        /\ berr' = berr
    /\ UNCHANGED <<git, image, registry, repo, handle_exit, tags, tag, proc, pipe,
                   buf, written, out, built, applied, configures, popens, derived>>
    /\ UNCHANGED <<dvars, lvars>>

\* The builders build and push are checked for: with or without a commit,
\* a git tag and an extra tag, pushing or not, with a registry name with or
\* without the trailing colon its pattern admits, over a checkout that is
\* in place, lacks the branch, is a file, or is still to be cloned.
BuildInit ==
    /\ ReconcilerIdle({})
    /\ \E g \in [commit : {None, C1}, tag : {None, <<"v1">>},
                  branch : {"master"}, pull : {TRUE}],
          img \in [tags : {{}, {Latest}, {C1}}, push : BOOLEAN],
          reg \in {<<"reg">>, <<"reg", ":">>},
          rp \in {[path |-> "dir", head |-> C1, origin |-> C1],
                  [path |-> "dir", head |-> None, origin |-> C1],
                  [path |-> "file", head |-> None, origin |-> C1],
                  [path |-> "absent", head |-> None, origin |-> C1]} :
          BuilderNew(g, img, reg, rp)
    /\ NothingLoaded

BuildNext ==
    \/ origin_advances
    \/ \E pulled \in BOOLEAN : ci_build(pulled)
    \/ \E pulled \in BOOLEAN : build_configure(pulled)
    \/ build_popen
    \/ backend_write
    \/ \E c \in ExitCodes : backend_exit(c)
    \/ build_poll
    \/ build_select
    \/ build_callback
    \/ build_wait
    \/ \E t \in tags : build_tag(t)
    \/ \E pulled \in BOOLEAN : ci_push(pulled)
    \/ push_begin
    \/ \E ref \in topush, outcome \in PushOutcomes : push_next(ref, outcome)

SpecBuild == BuildInit /\ [][BuildNext]_vars

\* One build and push of one descriptor, the consumer of build running on:
\* the for loop over builder.build(...) in BuilderCommandCI.build takes the
\* next item as soon as the last is handled, so a step of build that can
\* be taken is taken; select is such a step once it has an event to
\* report.  Nothing is asked of the backend or of the origin.
LoopInit ==
    /\ ReconcilerIdle({})
    /\ BuilderNew([commit |-> None, tag |-> <<"v1">>, branch |-> "master", pull |-> TRUE],
                  [tags |-> {Latest}, push |-> TRUE],
                  <<"reg">>,
                  [path |-> "dir", head |-> C1, origin |-> C1])
    /\ NothingLoaded

ConsumerRuns ==
    /\ WF_vars(build_poll)
    /\ WF_vars(build_select)
    /\ WF_vars(build_callback)
    /\ WF_vars(build_wait)
    /\ WF_vars(\E t \in tags : build_tag(t))

SpecLoop == LoopInit /\ [][BuildNext]_vars /\ ConsumerRuns

\* ------------------------------------------------------------------------
\* image_tags as a function of the descriptor: a Builder is constructed,
\* configured or not, and its image_tags is read.

\* builder.git.configure() called on its own, as BuilderCommandCI.initialize
\* and the tests do.
git_configure(pulled) ==
    /\ bpc = "new"
    /\ LET c == Configure(git, repo, pulled)
       IN  /\ git' = c.git
           /\ repo' = c.repo
           /\ configures' = Append(configures, ConfigureEntry("caller", git, c))
           /\ IF c.err # "none"
              THEN bpc' = "raised" /\ berr' = [kind |-> c.err, code |-> 0]
              ELSE bpc' = "configured" /\ berr' = berr
    /\ UNCHANGED <<image, registry, handle_exit, tags, tag, proc, pipe, buf, written,
                   out, built, applied, topush, pushes, popens, derived>>
    /\ UNCHANGED <<dvars, lvars>>

\* builder.image_tags is read.
image_tags_read ==
    /\ bpc \in {"new", "configured"}
    /\ derived' = image_tags
    /\ bpc' = "read"
    /\ UNCHANGED <<git, image, registry, repo, handle_exit, tags, tag, proc, pipe,
                   buf, written, out, built, applied, topush, pushes, berr,
                   configures, popens>>
    /\ UNCHANGED <<dvars, lvars>>

Branches == {"master", "main", "dev", "release"}

\* Extra tags of a descriptor: two of its own, one equal to a commit hash,
\* one equal to a git tag and one equal to a version tag.
ExtraTags == {Latest, <<"test">>, C1, <<"v1">>, <<"v1", "-alpha">>}

TagsInit ==
    /\ ReconcilerIdle({})
    /\ \E g \in [commit : {None, C1}, tag : {None, <<>>, <<"v1">>},
                  branch : Branches, pull : {TRUE}],
          img \in [tags : SUBSET ExtraTags, push : {FALSE}],
          reg \in {<<"reg">>, <<"reg", ":">>} :
          BuilderNew(g, img, reg, [path |-> "dir", head |-> C2, origin |-> C2])
    /\ NothingLoaded

TagsNext ==
    \/ \E pulled \in BOOLEAN : git_configure(pulled)
    \/ image_tags_read

SpecTags == TagsInit /\ [][TagsNext]_vars

\* ------------------------------------------------------------------------
\* Properties of the reconciler.

\* The local name of a tracked subdomain, written out from its definition:
\* what precedes the domain, without the separating dot.
LocalName(sub) ==
    IF Len(sub) > Len(Domain) THEN SubSeq(sub, 1, Len(sub) - Len(Domain) - 1)
    ELSE <<>>

\* A response that passes both checks.
PassesBoth(res) == res.code = 200 /\ res.status = "SUCCESS"

\* The positions of the log that hold the calls made for a subdomain.
IndexOf(sub) == {i \in 1..Len(calls) : calls[i].sub = sub}

CallsOf(sub) == SelectSeq(calls, LAMBDA c : c.sub = sub)

OpsOf(sub) == [i \in 1..Len(CallsOf(sub)) |-> CallsOf(sub)[i].op]

IsPrefix(s, t) == Len(s) <= Len(t) /\ \A i \in 1..Len(s) : s[i] = t[i]

\* The calls of a subdomain stand next to each other in the log.
Contiguous(sub) ==
    \A i, j \in IndexOf(sub) : \A k \in i..j : k \in IndexOf(sub)

\* replace has returned normally for the subdomain.
Done(sub) ==
    /\ pc \in {"loop", "delete", "verify", "create", "done", "failed"}
    /\ sub \notin todo
    /\ ~(cur = sub /\ pc \in {"delete", "verify", "create", "failed"})

\* replace has raised for the subdomain.
Failed(sub) == cur = sub /\ pc = "failed"

\* The first call for the subdomain is a lookup that passed both checks.
LookedUp(sub) ==
    /\ CallsOf(sub) # <<>>
    /\ CallsOf(sub)[1].op = "lookup"
    /\ PassesBoth(CallsOf(sub)[1].res)

\* The records that lookup returned.
Found(sub) == CallsOf(sub)[1].recs

OneDiffering(sub) ==
    LookedUp(sub) /\ \E r \in Found(sub) : Found(sub) = {r} /\ r.content # ipaddr

OneEqual(sub) ==
    LookedUp(sub) /\ \E r \in Found(sub) : Found(sub) = {r} /\ r.content = ipaddr

Ambiguous(sub) == LookedUp(sub) /\ Cardinality(Found(sub)) >= 2

\* C1: when the lookup of a subdomain returns exactly one record whose
\* content differs from the target address, the calls made for it are, in
\* this order and with no other call between them, the lookup, one delete of
\* that record's id, one verification lookup and one create; the create is
\* sent only after the verification returned zero records, and when replace
\* returns all four have been sent.
C1_DeleteVerifyCreate ==
    \A sub \in Subdomains :
        OneDiffering(sub) =>
            LET cs == CallsOf(sub)
            IN  /\ IsPrefix(OpsOf(sub), <<"lookup", "delete", "verify", "create">>)
                /\ Contiguous(sub)
                /\ Len(cs) >= 2 =>
                      \A r \in Found(sub) : cs[2].req.id = r.id
                /\ Len(cs) >= 4 => PassesBoth(cs[3].res) /\ cs[3].recs = {}
                /\ (cur = sub /\ pc = "delete") => Len(cs) = 1
                /\ (cur = sub /\ pc = "verify") => Len(cs) = 2
                /\ (cur = sub /\ pc = "create") => Len(cs) = 3
                /\ Done(sub) => Len(cs) = 4

C1_Witness ==
    \E sub \in Subdomains : OneDiffering(sub) /\ Done(sub) /\ Len(CallsOf(sub)) = 4

\* C2: when the lookup of a subdomain returns exactly one record whose
\* content equals the target address, replace returns after that lookup: no
\* delete, no create and no second lookup is sent for the subdomain, and the
\* provider's records are what they were when replace was entered.
C2_AlreadyCorrect ==
    \A sub \in Subdomains :
        OneEqual(sub) =>
            /\ Done(sub)
            /\ OpsOf(sub) = <<"lookup">>
            /\ cur = sub => records = recordsAtEntry
            /\ {r \in records : r.name = LocalName(sub)} = Found(sub)

C2_Witness ==
    \E sub \in Subdomains : OneEqual(sub) /\ cur = sub /\ pc = "loop"

\* C3: when the lookup of a subdomain returns two or more records, replace
\* raises ValueError, the lookup is the only call made for the subdomain and
\* the last call of the invocation, and the provider's records are what they
\* were when replace was entered.
C3_AmbiguousRefused ==
    \A sub \in Subdomains :
        Ambiguous(sub) =>
            /\ Failed(sub)
            /\ err = "ValueError"
            /\ OpsOf(sub) = <<"lookup">>
            /\ calls[Len(calls)].sub = sub
            /\ records = recordsAtEntry

C3_Witness ==
    \E sub \in Subdomains : Ambiguous(sub) /\ Failed(sub) /\ Len(calls) > 2

\* C4: a verification lookup that returns one or more records ends replace
\* with AssertionError; it is the last call of the invocation, so no create
\* follows it, and no name ever holds more records than it held when the
\* invocation began, or more than one if it held none.
C4_DeleteNotConfirmed ==
    /\ \A i \in 1..Len(calls) :
          (calls[i].op = "verify" /\ PassesBoth(calls[i].res) /\ calls[i].recs # {}) =>
              /\ i = Len(calls)
              /\ pc = "failed"
              /\ err = "AssertionError"
              /\ cur = calls[i].sub
    /\ \A sub \in Subdomains :
          LET held(rs) == Cardinality({r \in rs : r.name = LocalName(sub)})
          IN  held(records) <= IF held(recordsAtStart) = 0 THEN 1 ELSE held(recordsAtStart)

C4_Witness ==
    /\ Len(calls) >= 3
    /\ calls[Len(calls)].op = "verify"
    /\ PassesBoth(calls[Len(calls)].res)
    /\ calls[Len(calls)].recs # {}
    /\ calls[Len(calls) - 1].op = "delete"
    /\ pc = "failed"

ZeroFound(sub) == LookedUp(sub) /\ Found(sub) = {}

\* C5 as stated: when the lookup of a subdomain returns zero records, the
\* next call is the create (type A, content the target address, name the
\* local name), no delete is sent, and replace returns after it.
C5_StraightToCreate ==
    \A sub \in Subdomains :
        ZeroFound(sub) =>
            LET cs == CallsOf(sub)
            IN  /\ IsPrefix(OpsOf(sub), <<"lookup", "create">>)
                /\ Contiguous(sub)
                /\ Len(cs) >= 2 =>
                      cs[2].req = [url |-> "create", type |-> "A",
                                   content |-> ipaddr, name |-> LocalName(sub)]
                /\ Done(sub) => Len(cs) = 2

\* C5, amended: when the lookup of a subdomain returns zero records, no
\* delete is sent; the next call is the verification lookup, and only when
\* that too returns zero records is the create sent (type A, content the
\* target address, name the local name), next after it; replace returns
\* once the create has succeeded, and the provider then holds the record.
C5_ZeroVerifyCreate ==
    \A sub \in Subdomains :
        ZeroFound(sub) =>
            LET cs == CallsOf(sub)
            IN  /\ IsPrefix(OpsOf(sub), <<"lookup", "verify", "create">>)
                /\ Contiguous(sub)
                /\ Len(cs) >= 1 => (cur = sub /\ pc = "verify" => Len(cs) = 1)
                /\ Len(cs) >= 3 =>
                      /\ PassesBoth(cs[2].res) /\ cs[2].recs = {}
                      /\ cs[3].req = [url |-> "create", type |-> "A",
                                      content |-> ipaddr, name |-> LocalName(sub)]
                /\ Done(sub) =>
                      /\ Len(cs) = 3
                      /\ PassesBoth(cs[3].res)
                      /\ \E r \in records :
                            r.name = LocalName(sub) /\ r.content = ipaddr

C5_Witness ==
    \E sub \in Subdomains : ZeroFound(sub) /\ Done(sub) /\ Len(CallsOf(sub)) = 3

\* C6: the first request of an invocation is the ping and no other request
\* is a ping; when the ping's response fails a check the invocation has
\* failed with the ping as its only request.
C6_PingFirst ==
    /\ \A i \in 1..Len(calls) : (calls[i].op = "ping") <=> (i = 1)
    /\ (calls # <<>> /\ ~PassesBoth(calls[1].res)) =>
          /\ Len(calls) = 1
          /\ pc = "failed"
          /\ err # "none"
          /\ todo = Subdomains
          /\ records = recordsAtStart

C6_Witness ==
    /\ Len(calls) = 1
    /\ calls[1].op = "ping"
    /\ calls[1].res.code = 200
    /\ calls[1].res.status = "ERROR"
    /\ pc = "failed"

\* C7: once replace has raised, the invocation has failed, no request has
\* been sent for a subdomain the loop had not reached, and no request is
\* sent afterwards until handle_porkbun is invoked anew; no step is sent
\* twice for the same subdomain.
C7_StateInv ==
    /\ err # "none" =>
          /\ pc = "failed"
          /\ \A sub \in todo : CallsOf(sub) = <<>>
    /\ \A i, j \in 1..Len(calls) :
          (calls[i].op = calls[j].op /\ calls[i].sub = calls[j].sub) => i = j

C7_Step ==
    err # "none" =>
        \/ calls' = calls /\ todo' = todo /\ err' = err /\ records' = records
        \/ runs' = runs + 1 /\ calls' = <<>>

\* C7: reconciliation is fail-fast and sends no step twice: C7_StateInv
\* holds in every state and C7_Step in every step.
C7_FailFast == [](C7_StateInv) /\ [][C7_Step]_vars

C7_Witness ==
    /\ pc = "failed"
    /\ cur \in Subdomains
    /\ Cardinality(todo) = 1
    /\ Len(calls) >= 4

\* C8: when an invocation completes without error the provider holds, for
\* each of the three tracked subdomains, exactly one A record, and its
\* content is the target address.
C8_Converged ==
    pc = "done" =>
        \A sub \in Subdomains :
            \E r \in records :
                /\ {x \in records : x.name = LocalName(sub)} = {r}
                /\ r.content = ipaddr

C8_Witness ==
    /\ pc = "done"
    /\ \E i \in 1..Len(calls) : calls[i].op = "delete"
    /\ \E sub \in Subdomains : ZeroFound(sub)
    /\ \E sub \in Subdomains : OneEqual(sub)

\* The invocation before this one completed, and with the same address.
Repeated ==
    /\ pc # "idle"
    /\ last.pc = "done"
    /\ last.ipaddr = ipaddr

\* C9: an invocation that follows a completed invocation with the same
\* address sends no delete and no create, and leaves the provider's records
\* as they were.
C9_Idempotent ==
    Repeated =>
        /\ \A i \in 1..Len(calls) : calls[i].op \in {"ping", "lookup"}
        /\ records = recordsAtStart

C9_Witness ==
    /\ Repeated
    /\ pc = "done"
    /\ Len(calls) = 4
    /\ records # {}

\* C10 as stated: every response is checked for both the HTTP status and
\* the body's status, and a response that fails either check is the last of
\* the invocation, which has failed.
C10_EveryResponseChecked ==
    \A i \in 1..Len(calls) :
        ~PassesBoth(calls[i].res) => (i = Len(calls) /\ pc = "failed")

\* The narrative lines that follow one call, from what the call was and how
\* the provider answered it: a lookup that found one record, or none (two
\* lines: nothing found, verification announced); a delete (verification
\* announced); a verification that found nothing (create announced); a
\* create that passed.  A call that ends the invocation has no line.
LinesAfter(c) ==
    LET chain(text) == <<text, LocalName(c.sub), ipaddr>>
    IN  CASE c.op = "lookup" /\ PassesBoth(c.res) /\ Cardinality(c.recs) = 1 ->
               << chain("Found record") >>
          [] c.op = "lookup" /\ PassesBoth(c.res) /\ c.recs = {} ->
               << chain("No record found for"),
                  chain("Verifying that records cleared for") >>
          [] c.op = "delete" ->
               << chain("Verifying that records cleared for") >>
          [] c.op = "verify" /\ PassesBoth(c.res) /\ c.recs = {} ->
               << chain("Creating records for") >>
          [] c.op = "create" /\ PassesBoth(c.res) ->
               << <<"Record created!">> >>
          [] OTHER -> <<>>

RECURSIVE Narrative(_)
Narrative(cs) ==
    IF cs = <<>> THEN <<>>
    ELSE Narrative(SubSeq(cs, 1, Len(cs) - 1)) \o LinesAfter(cs[Len(cs)])

\* The calls that did not end the invocation, the ping aside.
StepsTaken ==
    {i \in 1..Len(calls) :
        /\ calls[i].op # "ping"
        /\ ~(pc = "failed" /\ i = Len(calls))}

\* C11: at every moment of an invocation, and so when it fails, the log file
\* holds its header followed by the narrative lines of all calls made so
\* far, for all subdomains, in the order of the calls; every step taken
\* before a failure has its line in the file.
C11_NarrativeWritten ==
    pc # "idle" =>
        /\ file = << <<"Logs for handle_porkbun">> >> \o Narrative(calls)
        /\ \A i \in StepsTaken : LinesAfter(calls[i]) # <<>>
        /\ Len(file) - 1 >= Cardinality(StepsTaken)

C11_Witness ==
    /\ pc = "failed"
    /\ Len(calls) >= 6
    /\ Len(file) >= 6
    /\ \E i, j \in 2..Len(file) : file[i][1] = "Creating records for"
                                  /\ file[j][1] = "Found record"
                                  /\ file[i][2] # file[j][2]

\* C12 as stated: whenever replace has failed for a subdomain, the error
\* raised names the subdomain and the step that failed.
C12_ErrorNamesSubdomainAndStep ==
    (err # "none" /\ cur \in Subdomains) => {"subdomain", "step"} \subseteq msg

\* The sequences of calls after which replace returns for a subdomain.
Complete(sub) ==
    \/ OpsOf(sub) = <<"lookup">> /\ OneEqual(sub)
    \/ /\ OpsOf(sub) \in {<<"lookup", "delete", "verify", "create">>,
                          <<"lookup", "verify", "create">>}
       /\ PassesBoth(CallsOf(sub)[Len(CallsOf(sub))].res)

\* C14: within one invocation the calls of a subdomain stand next to each
\* other in the order lookup, delete, verification, create, each subdomain
\* is looked up at most once, and a subdomain other than the one replace is
\* running for has calls only if replace has returned for it: no call for
\* another subdomain lies between a subdomain's lookup and its end.
C14_NoInterleaving ==
    \A sub \in Subdomains :
        /\ Contiguous(sub)
        /\ \/ IsPrefix(OpsOf(sub), <<"lookup", "delete", "verify", "create">>)
           \/ IsPrefix(OpsOf(sub), <<"lookup", "verify", "create">>)
        /\ sub \in todo => CallsOf(sub) = <<>>
        /\ (CallsOf(sub) # <<>> /\ sub # cur) => Complete(sub)
        /\ (sub = cur /\ pc \in {"loop", "done"}) => Complete(sub)
        /\ (sub = cur /\ pc \in {"delete", "verify", "create", "failed"}
              /\ CallsOf(sub) # <<>>) =>
               calls[Len(calls)].sub = sub

C14_Witness ==
    /\ pc = "verify"
    /\ cur \in Subdomains
    /\ Len(CallsOf(cur)) = 2
    /\ \E a, b \in Subdomains \ {cur} :
          a # b /\ Len(CallsOf(a)) = 4 /\ Len(CallsOf(b)) = 3

EndsWith(s, suffix) ==
    /\ Len(suffix) <= Len(s)
    /\ SubSeq(s, Len(s) - Len(suffix) + 1, Len(s)) = suffix

\* C13 as stated: once replace has been entered for a candidate, the local
\* name is empty when the candidate is the domain and L when the candidate
\* is L, a dot and the domain; and for a candidate that does not end with
\* the domain replace has raised ValueError with no call sent for it.
C13_LocalNameExtraction ==
    cur \in Candidates =>
        /\ (cur = Domain /\ err = "none") => name = <<>>
        /\ \A L \in Candidates :
              (cur = L \o <<".">> \o Domain /\ L # <<>> /\ err = "none"
                 /\ \A i \in 1..Len(L) : L[i] \in NameChars) => name = L
        /\ ~EndsWith(cur, Domain) =>
              /\ pc = "failed"
              /\ err = "ValueError"
              /\ CallsOf(cur) = <<>>

\* ------------------------------------------------------------------------
\* Loading a descriptor with overrides.  pydantic's deep_update, which load
\* calls, lies outside the repository; it is written out here as the
\* library defines it.

\* As DeepUpdate, with the keys of the update replacing those of the
\* mapping whole, as dict.update does.
ShallowUpdate(mapping, updating) ==
    Dict([k \in DOMAIN mapping.items \cup DOMAIN updating.items |->
             IF k \in DOMAIN updating.items THEN updating.items[k]
             ELSE mapping.items[k]])

\* deep_update(mapping, updating): a key of the update whose value and
\* whose value in the mapping are both mappings is updated in turn; any
\* other key of the update replaces the mapping's.
RECURSIVE DeepUpdate(_, _)
DeepUpdate(mapping, updating) ==
    Dict([k \in DOMAIN mapping.items \cup DOMAIN updating.items |->
             IF k \notin DOMAIN updating.items THEN mapping.items[k]
             ELSE IF /\ k \in DOMAIN mapping.items
                     /\ mapping.items[k].kind = "dict"
                     /\ updating.items[k].kind = "dict"
                  THEN DeepUpdate(mapping.items[k], updating.items[k])
                  ELSE updating.items[k]])

\* The mappings from some of the keys K to values of V.
Mappings(K, V) == {Dict(f) : f \in UNION {[S -> V] : S \in SUBSET K}}

Scalars == {Leaf("x"), Leaf("y")}

\* A section of a descriptor: a scalar, or a mapping over tag and commit.
Sections == Scalars \cup Mappings({"tag", "commit"}, Scalars)

\* Descriptors and overwrites: mappings with sections git and image.  A
\* descriptor may also have a key config, which load is told to exclude.
Overwrites == Mappings({"git", "image"}, Sections)

Descriptors ==
    Overwrites \cup
        {Dict([k \in DOMAIN d.items \cup {"config"} |->
                  IF k = "config" THEN Leaf("x") ELSE d.items[k]]) : d \in Overwrites}

\* The PipelineConfig that fromBuilderFile passes as exclude = dict(config=config).
ConfigObject == Leaf("PipelineConfig")

\* load(loaded=[base], overwrite=ov, exclude=dict(config=config)): the
\* documents and the overwrite are deep-updated in order; a config key in
\* the result is refused; the excluded value is set.
load(ov) ==
    /\ overwrite' = ov
    /\ LET merged == DeepUpdate(base, ov)
       IN  IF "config" \in DOMAIN merged.items
           THEN lpc' = "raised" /\ data' = data
           ELSE /\ lpc' = "loaded"
                /\ data' = DeepUpdate(merged, Dict([k \in {"config"} |-> ConfigObject]))
    /\ UNCHANGED <<base, gits>>
    /\ UNCHANGED <<dvars, bvars>>

\* Builder.fromYAML / fromBuilderFile called with an overwrite.
fromBuilderFile(ov) ==
    /\ lpc = "new"
    /\ via' = "fromBuilderFile"
    /\ load(ov)

\* Builder.forTyper: the flags that are not None go into dict(git=...),
\* which fromRepo hands to fromBuilderFile as the overwrite.
forTyper(git_tag, git_commit) ==
    /\ lpc = "new"
    /\ via' = "forTyper"
    /\ LET given == {k \in {"tag", "commit"} :
                        (k = "tag" /\ git_tag # None) \/ (k = "commit" /\ git_commit # None)}
           flags == [k \in given |-> IF k = "tag" THEN Leaf(git_tag[1])
                                     ELSE Leaf(git_commit[1])]
       IN  load(Dict([k \in {"git"} |-> Dict(flags)]))

LoadInit ==
    /\ ReconcilerIdle({})
    /\ BuilderNew([commit |-> None, tag |-> None, branch |-> "master", pull |-> TRUE],
                  [tags |-> {}, push |-> FALSE],
                  <<"reg">>,
                  [path |-> "dir", head |-> C1, origin |-> C1])
    /\ lpc = "new"
    /\ via = "none"
    /\ base \in Descriptors
    /\ overwrite = Dict(<<>>)
    /\ data = Dict(<<>>)
    /\ gits = {}

LoadNext ==
    \/ lpc = "new" /\ \E ov \in Overwrites : fromBuilderFile(ov)
    \/ \E git_tag \in {None, <<"x">>, <<"y">>}, git_commit \in {None, <<"x">>, <<"y">>} :
          forTyper(git_tag, git_commit)

SpecLoad == LoadInit /\ [][LoadNext]_vars

\* ------------------------------------------------------------------------
\* Properties of the builder.

\* The references image.tag was called with.
AppliedRefs == {a.ref : a \in applied}

\* The calls of configure made by build itself.
BuildConfigures == SelectSeq(configures, LAMBDA c : c.by = "build")

\* C15: when the backend has exited with a non-zero code c, build does not
\* get past the loop and its wait other than by raising; the error it
\* raises carries c (ValueError naming c, or the Exit(c) of the CLI's
\* handle_exit), and image.tag is never called.
C15_ExitCodePropagates ==
    (proc.state = "exited" /\ proc.code # 0) =>
        /\ bpc \in {"poll", "select", "callback", "wait", "raised"}
        /\ applied = {}
        /\ bpc = "raised" =>
              /\ berr.code = proc.code
              /\ berr.kind = IF handle_exit = "None" THEN "ValueError" ELSE "Exit"

C15_Witness ==
    /\ bpc = "raised"
    /\ proc.state = "exited"
    /\ proc.code = 2
    /\ handle_exit = "cli"
    /\ berr = [kind |-> "Exit", code |-> 2]
    /\ Cardinality(derived) >= 2

\* C16: the backend is started at most once in a call of build, with one
\* --tag whose value is a member of image_tags; image.tag is called only
\* after exit code 0, on the image fetched by that reference, with the other
\* members; and when build has returned the reference of --tag together
\* with the references applied are the whole of image_tags.
C16_OneBuildWholeSet ==
    /\ popens <= 1
    /\ Cardinality(built) <= 1
    /\ proc.state # "none" =>
          /\ popens = 1
          /\ Len(SelectSeq(proc.argv, LAMBDA a : a = "--tag")) = 1
          /\ proc.argv[2] = tag
          /\ tag \in image_tags
    /\ \A a \in applied :
          /\ proc.state = "exited" /\ proc.code = 0
          /\ a.image = tag
          /\ tag \in built
          /\ a.ref \in image_tags \ {tag}
    /\ (popens = 1 /\ bpc \in {"built", "pushing", "pushed"}) =>
          {tag} \cup AppliedRefs = image_tags

C16_Witness ==
    /\ bpc = "built"
    /\ Cardinality(image_tags) = 3
    /\ \E i \in 1..Len(tag) : tag[i] = "latest"
    /\ Cardinality(applied) = 2

\* C17: build calls configure once, before anything else: the backend has
\* been started only if that call succeeded, and if it failed the backend
\* was never started, no reference was applied, build has raised configure's
\* error and configure was not called again.
C17_ConfigureFirst ==
    /\ Len(BuildConfigures) <= 1
    /\ (popens > 0 \/ proc # NoProc \/ applied # {} \/ tag # None) =>
          /\ Len(BuildConfigures) = 1
          /\ BuildConfigures[1].err = "none"
    /\ (BuildConfigures # <<>> /\ BuildConfigures[1].err # "none") =>
          /\ popens = 0
          /\ proc = NoProc
          /\ applied = {}
          /\ bpc = "raised"
          /\ berr.kind = BuildConfigures[1].err
          /\ configures[Len(configures)] = BuildConfigures[1]

C17_Witness ==
    /\ bpc = "raised"
    /\ Len(configures) = 2
    /\ configures[1].err = "none"
    /\ configures[2].by = "build"
    /\ configures[2].err = "GitCommandError"
    /\ configures[2].at = "pull"

C19_PushStopsAtFailure ==
    /\ ~image.push => pushes = <<>>
    /\ \A i, j \in 1..Len(pushes) :
          (pushes[i].repository = pushes[j].repository
             /\ pushes[i].tag = pushes[j].tag) => i = j
    /\ \A i \in 1..Len(pushes) :
          pushes[i].outcome # "pushed" =>
              /\ i = Len(pushes)
              /\ bpc = "raised"
              /\ berr.kind # "none"

\* C20: for a Builder whose commit is set and whose git tag is None, the
\* value read from image_tags is image_full:commit together with
\* image_full:t for each t of image.tags, and nothing else.
C20_CommitAndExtraTags ==
    (bpc = "read" /\ git.commit # None /\ git.tag = None) =>
        derived = {image_full \o <<":">> \o git.commit}
                     \cup {image_full \o <<":">> \o t : t \in image.tags}

C20_Witness ==
    /\ bpc = "read"
    /\ configures # <<>>
    /\ git.commit = C2
    /\ git.tag = None
    /\ image.tags = {<<"test">>, Latest}
    /\ Cardinality(derived) = 3

\* The three references a git tag can give: with -alpha, with -beta, bare.
VersionRef(suffix) == image_full \o <<":">> \o git.tag \o suffix

\* The one of them the branch calls for.
VersionExpected ==
    IF git.branch \in {"master", "main"} THEN VersionRef(<<"-alpha">>)
    ELSE IF git.branch = "dev" THEN VersionRef(<<"-beta">>)
    ELSE VersionRef(<<>>)

\* The references that come from the commit and from image.tags.
OtherRefs ==
    {image_full \o <<":">> \o t :
        t \in image.tags \cup (IF git.commit # None THEN {git.commit} ELSE {})}

VersionAsExpected ==
    /\ VersionExpected \in derived
    /\ \A suffix \in {<<"-alpha">>, <<"-beta">>, <<>>} :
          (VersionRef(suffix) \in derived /\ VersionRef(suffix) # VersionExpected)
             => VersionRef(suffix) \in OtherRefs

\* C21 as stated: for a git tag that is not None, image_tags holds the
\* version reference the branch calls for (-alpha for master and main,
\* -beta for dev, bare otherwise), and the other two only when image.tags
\* gives them.
C21_VersionForNonNullTag ==
    (bpc = "read" /\ git.tag # None) => VersionAsExpected

\* C21, amended: the same for a git tag that is neither None nor the empty
\* string.
C21_VersionForNonEmptyTag ==
    (bpc = "read" /\ git.tag # None /\ git.tag # <<>>) => VersionAsExpected

C21_Witness ==
    /\ bpc = "read"
    /\ git.tag = <<"v1">>
    /\ git.branch = "dev"
    /\ image.tags = {<<"v1", "-alpha">>, Latest}
    /\ VersionRef(<<"-beta">>) \in derived
    /\ VersionRef(<<"-alpha">>) \in derived
    /\ VersionRef(<<>>) \notin derived

\* The logical tags of a Builder: its commit, its version tag, its extra
\* tags.
LogicalTags ==
    (IF git.commit # None THEN {git.commit} ELSE {})
       \cup (IF Truthy(git.tag)
             THEN {IF git.branch \in {"master", "main"} THEN git.tag \o <<"-alpha">>
                   ELSE IF git.branch = "dev" THEN git.tag \o <<"-beta">>
                   ELSE git.tag}
             ELSE {})
       \cup image.tags

\* C22: when commit is set image_tags is not empty and has as many
\* references as there are distinct logical tags; build, which pops the
\* primary tag after configure, never raises KeyError, and has a primary tag
\* whenever it is past the pop.
C22_NeverEmpty ==
    /\ git.commit # None =>
          /\ image_tags # {}
          /\ Cardinality(image_tags) = Cardinality(LogicalTags)
    /\ berr.kind # "KeyError"
    /\ popens > 0 => (derived # {} /\ tag \in derived)

C22_Witness ==
    /\ bpc = "poll"
    /\ popens = 1
    /\ configures # <<>>
    /\ git.commit = C1
    /\ image.tags = {C1}
    /\ git.tag = None
    /\ Cardinality(image_tags) = 1

\* C23: a call of configure that succeeds leaves the commit field set and
\* the branch pointing at it; a commit that was set before the call keeps
\* its value (the branch is forced to it), and a commit that was None is
\* filled with the commit the branch points at after the pull.
C23_TwoModes ==
    /\ \A i \in 1..Len(configures) :
          configures[i].err = "none" =>
              /\ configures[i].commit # None
              /\ configures[i].head = configures[i].commit
              /\ configures[i].given # None =>
                    configures[i].commit = configures[i].given
    /\ (configures # <<>> /\ configures[Len(configures)].err = "none") =>
          /\ git.commit = configures[Len(configures)].commit
          /\ repo.head = git.commit

C23_Witness ==
    /\ Len(configures) = 1
    /\ configures[1].err = "none"
    /\ configures[1].given = None
    /\ configures[1].found.head = C1
    /\ git.commit = C2
    /\ repo.head = C2

\* C24: a call of configure fails for the branch exactly when the checkout
\* it resolved has no such branch; the error is ValueError, no pull was
\* made, the branch is as it was found and the commit field is unchanged.
C24_BranchNotFound ==
    \A i \in 1..Len(configures) :
        LET e == configures[i]
            missing == e.found.path = "dir" /\ e.found.head = None
        IN  /\ (e.at = "branch") <=> missing
            /\ e.at = "branch" =>
                  /\ e.err = "ValueError"
                  /\ ~e.pull
                  /\ e.head = e.found.head
                  /\ e.commit = e.given

C24_Witness ==
    /\ bpc = "raised"
    /\ Len(configures) = 1
    /\ configures[1].at = "branch"
    /\ configures[1].given = C1
    /\ git.commit = C1
    /\ berr.kind = "ValueError"

\* C29: of two calls of configure on the same Builder that both succeed,
\* the later leaves the commit field at the value the earlier left and
\* the branch pointing at that commit, whatever the pull brought in.
C29_ConfigureIdempotent ==
    \A i, j \in 1..Len(configures) :
        (i < j /\ configures[i].err = "none" /\ configures[j].err = "none") =>
            /\ configures[j].commit = configures[i].commit
            /\ configures[j].head = configures[i].commit

C29_Witness ==
    /\ Len(configures) = 2
    /\ configures[1].by = "ci" /\ configures[2].by = "build"
    /\ configures[1].err = "none" /\ configures[2].err = "none"
    /\ configures[1].given = None
    /\ configures[1].commit = C1
    /\ configures[2].pull
    /\ repo.origin = C2
    /\ repo.head = C1
    /\ git.commit = C1

\* ------------------------------------------------------------------------
\* BuilderGit.check_repository: the checkout path derived from the URL.

\* How many BuilderGit values are validated.
MaxGits == 2

\* The character classes [a-zA-Z0-9_-] and [a-zA-Z0-9] of PATTERN_GITHUB.
SlugChars == {"_", "-"} \cup Lower \cup Upper \cup Digit
AuthChars == Lower \cup Upper \cup Digit

\* The longest run of characters of S in u from position i on.
Run(u, i, S) ==
    CHOOSE n \in 0..(Len(u) + 1 - i) :
        /\ \A k \in i..(i + n - 1) : u[k] \in S
        /\ (i + n > Len(u) \/ u[i + n] \notin S)

\* The literal lit stands in u at position i.
LiteralAt(u, i, lit) ==
    /\ i + Len(lit) - 1 <= Len(u)
    /\ SubSeq(u, i, i + Len(lit) - 1) = lit

\* `github.com/` at position i, the dot of the pattern being any character.
HostAt(u, i) ==
    /\ LiteralAt(u, i, <<"g", "i", "t", "h", "u", "b">>)
    /\ i + 6 <= Len(u)
    /\ LiteralAt(u, i + 7, <<"c", "o", "m", "/">>)

\* The groups username and repository when host and slug stand at i: each
\* name is the longest run of its class, a `/` between them.  What follows
\* the repository is optional in the pattern, and match does not ask for
\* the end of the string.
SlugAt(u, i) ==
    LET un == Run(u, i + 11, SlugChars)
        rn == Run(u, i + 12 + un, SlugChars)
    IN  [ok |-> /\ HostAt(u, i)
                /\ un >= 1
                /\ i + 11 + un <= Len(u)
                /\ u[i + 11 + un] = "/"
                /\ rn >= 1,
         username |-> SubSeq(u, i + 11, i + 10 + un),
         repository |-> SubSeq(u, i + 12 + un, i + 11 + un + rn)]

NoMatchGithub == [ok |-> FALSE, username |-> <<>>, repository |-> <<>>]

\* PATTERN_GITHUB.match(u): the scheme at the start, then the optional
\* auth group (tried first, its password as long as it can be: up to the
\* last `@` after which host and slug stand), then host and slug.
PATTERN_GITHUB_match(u) ==
    LET https == <<"h", "t", "t", "p", "s">>
        ssh == <<"s", "s", "h">>
        sep == <<":", "/", "/">>
        p == IF LiteralAt(u, 1, https) THEN 6
             ELSE IF LiteralAt(u, 1, ssh) THEN 4 ELSE 0
        p0 == p + 3
        J == {j \in (p0 + 1)..Len(u) : u[j] = "@" /\ SlugAt(u, j + 1).ok}
        atsign == CHOOSE j \in J : \A k \in J : k <= j
    IN  IF p = 0 \/ ~LiteralAt(u, p, sep) THEN NoMatchGithub
        ELSE IF p0 <= Len(u) /\ u[p0] \in AuthChars /\ J # {}
             THEN SlugAt(u, atsign + 1)
        ELSE IF SlugAt(u, p0).ok THEN SlugAt(u, p0)
        ELSE NoMatchGithub

\* os.path.join of two segments.
join(a, b) ==
    IF b # <<>> /\ b[1] = "/" THEN b
    ELSE IF a = <<>> \/ a[Len(a)] = "/" THEN a \o b
    ELSE a \o <<"/">> \o b

\* util.path.base(".builder"), the package's base directory being /srv.
PATH_CLONE == join(<<"/", "s", "r", "v">>, <<".", "b", "u", "i", "l", "d", "e", "r">>)

\* The message of the ValueError raised for a URL that does not match: the
\* URL, the fixed words and the pattern (the quotation marks left out).
MustMatchMessage(repository) ==
    <<repository, " must match pattern ", "PATTERN_GITHUB">>

\* "path" is not among the values.
NoPath == <<"absent">>

\* The values check_repository returns, or the error it raises.
CheckRepository(repository, path) ==
    LET matched == PATTERN_GITHUB_match(repository)
        values == [repository |-> repository, given |-> path # NoPath,
                   path |-> IF path = NoPath THEN None ELSE path,
                   err |-> <<>>]
    IN  IF repository = None \/ path # NoPath THEN values
        ELSE IF ~matched.ok
             THEN [values EXCEPT !.err = MustMatchMessage(repository)]
        ELSE [values EXCEPT !.path = join(PATH_CLONE, matched.repository)]

\* A BuilderGit is validated.
check_repository(repository, path) ==
    /\ Cardinality(gits) < MaxGits
    /\ gits' = gits \cup {CheckRepository(repository, path)}
    /\ UNCHANGED <<lpc, via, base, overwrite, data>>
    /\ UNCHANGED <<dvars, bvars>>

\* Repository URLs: scheme, auth, host, owner, name and what follows.
Url(scheme, auth, host, owner, nm, rest) ==
    scheme \o <<":", "/", "/">> \o auth \o host \o <<"/">> \o owner
        \o <<"/">> \o nm \o rest

Github == <<"g", "i", "t", "h", "u", "b", ".", "c", "o", "m">>

Urls ==
    {Url(scheme, auth, Github, owner, nm, rest) :
        scheme \in {<<"h", "t", "t", "p", "s">>, <<"f", "t", "p">>},
        auth \in {<<>>, <<"u", ":", "p", "@">>},
        owner \in {<<"a">>, <<"b", "-", "1">>},
        nm \in {<<"r">>, <<"s", "_", "2">>},
        rest \in {<<>>, <<".", "g", "i", "t">>}}
    \cup {Url(<<"s", "s", "h">>, <<"g", "i", "t", "@">>, Github, <<"a">>, <<"r">>, <<>>),
          Url(<<"h", "t", "t", "p", "s">>, <<>>, Github, <<"a">>, <<"r">>, <<"?", "x">>),
          Url(<<"h", "t", "t", "p", "s">>, <<>>, Github, <<"a">>, <<"r">>, <<"/", "x">>),
          Url(<<"h", "t", "t", "p", "s">>, <<>>, Github, <<"a">>, <<>>, <<>>),
          Url(<<"h", "t", "t", "p", "s">>, <<>>, Github, <<>>, <<"r">>, <<>>),
          Url(<<"h", "t", "t", "p", "s">>, <<>>,
              <<"g", "i", "t", "h", "u", "b", "x", "c", "o", "m">>, <<"a">>, <<"r">>, <<>>),
          Url(<<"h", "t", "t", "p", "s">>, <<>>,
              <<"g", "i", "t", "l", "a", "b", ".", "c", "o", "m">>, <<"a">>, <<"r">>, <<>>),
          <<"a", "/", "r">>}

Paths == {NoPath, <<"/", "t", "m", "p", "/", "r">>}

CheckoutInit ==
    /\ ReconcilerIdle({})
    /\ BuilderNew([commit |-> None, tag |-> None, branch |-> "master", pull |-> TRUE],
                  [tags |-> {}, push |-> FALSE],
                  <<"reg">>,
                  [path |-> "dir", head |-> C1, origin |-> C1])
    /\ NothingLoaded

CheckoutNext ==
    \E repository \in Urls \cup {None}, path \in Paths :
        check_repository(repository, path)

SpecCheckout == CheckoutInit /\ [][CheckoutNext]_vars

\* ------------------------------------------------------------------------
\* Properties of load.

Keys(d) == DOMAIN d.items

\* What the claim says of one key of two mappings and their merge: absent
\* from the override, the base's value stays; present in both as mappings,
\* the same holds key by key one level down; otherwise the override's value.
MergedAt(k, b, o, m) ==
    IF k \notin Keys(o) THEN m.items[k] = b.items[k]
    ELSE IF k \in Keys(b) /\ b.items[k].kind = "dict" /\ o.items[k].kind = "dict"
         THEN /\ m.items[k].kind = "dict"
              /\ Keys(m.items[k]) = Keys(b.items[k]) \cup Keys(o.items[k])
              /\ \A j \in Keys(m.items[k]) :
                    m.items[k].items[j] =
                        IF j \in Keys(o.items[k]) THEN o.items[k].items[j]
                        ELSE b.items[k].items[j]
         ELSE m.items[k] = o.items[k]

\* C25: the data load returns has the keys of the descriptor and of the
\* overwrite (and the excluded config); at every key path the overwrite's
\* leaf replaces the descriptor's, mappings are merged key by key, and a
\* key the overwrite lacks keeps the descriptor's value; through forTyper,
\* a flag that is None leaves the descriptor's tag or commit as it is.
C25_DeepMerge ==
    lpc = "loaded" =>
        /\ Keys(data) = Keys(base) \cup Keys(overwrite) \cup {"config"}
        /\ \A k \in Keys(base) \cup Keys(overwrite) : MergedAt(k, base, overwrite, data)
        /\ (via = "forTyper" /\ "git" \in Keys(base) /\ base.items["git"].kind = "dict") =>
              \A j \in Keys(base.items["git"]) \ Keys(overwrite.items["git"]) :
                  /\ j \in Keys(data.items["git"])
                  /\ data.items["git"].items[j] = base.items["git"].items[j]

C25_Witness ==
    /\ lpc = "loaded"
    /\ via = "forTyper"
    /\ Keys(overwrite.items["git"]) = {"commit"}
    /\ "git" \in Keys(base)
    /\ base.items["git"] = Dict([j \in {"tag", "commit"} |-> Leaf("x")])
    /\ data.items["git"] = Dict([j \in {"tag", "commit"} |->
                                    IF j = "tag" THEN Leaf("x") ELSE Leaf("y")])
    /\ "image" \in Keys(data)

\* ------------------------------------------------------------------------
\* Properties of check_repository.

\* The BuilderGit values whose path was derived from the URL.
Derived == {g \in gits : ~g.given /\ g.repository # None /\ g.err = <<>>}

\* Owner and name of a repository URL.
Slug(u) == <<PATTERN_GITHUB_match(u).username, PATTERN_GITHUB_match(u).repository>>

\* C26: a derived checkout path is <clone-root>/<owner>/<repo>, so that two
\* repositories that differ in owner or in name have different paths; a URL
\* that does not match the pattern fails with an error that names the URL
\* and the pattern.
C26_CheckoutPathPerRepository ==
    /\ \A g \in Derived :
          g.path = PATH_CLONE \o <<"/">> \o Slug(g.repository)[1]
                       \o <<"/">> \o Slug(g.repository)[2]
    /\ \A g, h \in Derived :
          Slug(g.repository) # Slug(h.repository) => g.path # h.path
    /\ \A g \in gits :
          (~g.given /\ g.repository # None /\ ~PATTERN_GITHUB_match(g.repository).ok)
              => g.err = MustMatchMessage(g.repository)

\* ------------------------------------------------------------------------
\* Properties of the read loop of build.

\* The lines the callback has forwarded.
Forwarded == {out[i].chunk : i \in 1..Len(out)} \ {0}

\* build has left its read loop: poll has seen the backend's exit.
LoopLeft == proc.state = "exited" /\ bpc \notin {"poll", "select", "callback"}

\* C27: when build has left its read loop, every line the backend wrote
\* has been forwarded through the callback.
C27_NoOutputLost == LoopLeft => Forwarded = 1..written

\* build is inside its read loop or between the loop and its return.
InBuild == bpc \in {"poll", "select", "callback", "wait", "tagging"}

\* C28: once the backend has exited, build gets out of its read loop and
\* returns or raises; it does not stay in select.
C28_LoopTerminates == (proc.state = "exited") ~> ~InBuild

\* The exit was observed from within select: the callback read the end of
\* the stream, and build returned.
C28_Witness ==
    /\ proc.state = "exited"
    /\ bpc = "built"
    /\ out # <<>>
    /\ out[Len(out)].chunk = 0

\* ------------------------------------------------------------------------
\* Properties of check.

\* C30: for every response handed to check, check returns without raising,
\* with an error exactly when the HTTP status is not the expected one or
\* the body's status is not SUCCESS; no invocation ends in an exception
\* raised inside check.
C30_CheckReturnsErrorAsValue ==
    /\ err # "KeyError"
    /\ \A i \in 1..Len(calls) :
          calls[i].op # "delete" =>
              /\ ~check(calls[i].res).raised
              /\ check(calls[i].res).err # "none" <=> ~Served(calls[i].res)

====
